---------------------------- MODULE Spec2Model ----------------------------
(***************************************************************************)
(* Model of JSONRPCService (src/unnamed/part_016): the JSON-RPC 2.0 client *)
(* runtime over one WebSocket.                                             *)
(*                                                                         *)
(* JavaScript runs one macrotask (a public call, a transport event, a      *)
(* timer callback) to completion and then drains the promise reactions it  *)
(* queued, so every action below is one macrotask together with its        *)
(* microtasks.  The handlers are operators from a state record to a state  *)
(* record, composed in the order the code runs them; an action commits the *)
(* record its handler returns.                                             *)
(*                                                                         *)
(* state.lastError and the debug log are written but never read by the     *)
(* service and are left out.  Timer durations are not modelled: a timer    *)
(* that is armed may fire at any later step.                               *)
(***************************************************************************)
EXTENDS Integers, Sequences, FiniteSets, TLC

VARIABLES
    connectionState,   \* state.connectionState
    connected,         \* state.connected
    reconnecting,      \* state.reconnecting
    options,           \* state.options (the fields the control flow reads)
    socket,            \* this.socket: index into sockets, 0 for null
    sockets,           \* every WebSocket constructed so far, with its connect() promise
    pendingRequests,   \* keys of this.pendingRequests (the key n stands for the string `${n}`)
    callTimers,        \* ids whose call() timeout timer is armed
    requestId,         \* this.requestId
    calls,             \* per call(): its request and what happened to its promise
    reconnectAttempts, \* this.reconnectAttempts
    reconnectTimer,    \* this.reconnectTimer: 0 for null, else the delay it was armed with
    pingTimer,         \* this.pingTimer is set
    eventHandlers,     \* this.eventHandlers: event name -> set of handler functions
    subscriptions,     \* the Subscription objects on() has returned so far
    notifies,          \* per notify(): what happened to its frame and its promise
    updates,           \* how many times setOptions() was called
    disconnectCalled,  \* history: the last thing a caller asked for was to disconnect
    limits,            \* how far the callers of this behaviour go
    emitted,           \* the emitEvent() calls of the last step, in order
    invoked,           \* the handler invocations of the last step, in order
    promises           \* the connect()/disconnect() promises settled in the last step

vars == <<connectionState, connected, reconnecting, options, socket, sockets,
          pendingRequests, callTimers, requestId, calls, reconnectAttempts,
          reconnectTimer, pingTimer, eventHandlers, subscriptions, notifies,
          updates, disconnectCalled, limits, emitted, invoked, promises>>

---------------------------------------------------------------------------
\* Bounds of the model.
MaxSockets == 3
MaxCalls == 2
MaxAttempts == 2
MaxSubscriptions == 2

\* enum ConnectionState
CONNECTING == "connecting"
CONNECTED == "connected"
DISCONNECTING == "disconnecting"
DISCONNECTED == "disconnected"
RECONNECTING == "reconnecting"
ConnectionState == {CONNECTING, CONNECTED, DISCONNECTING, DISCONNECTED, RECONNECTING}

\* WebSocket.readyState
WS_CONNECTING == "CONNECTING"
WS_OPEN == "OPEN"
WS_CLOSING == "CLOSING"
WS_CLOSED == "CLOSED"

\* event.code === 1000 is a normal closure; 1006 (abnormal closure) stands for
\* every other code.
NormalClosure == 1000
CloseCodes == {NormalClosure, 1006}

Methods == {"user.getProfile"}
\* Names handlers are registered under: a server notification, the wildcard and
\* an event of the service's own.
OwnNames == {"socket:connect"}
EventNames == {"room:chat_message", "*"} \cup OwnNames
\* The handler functions of the callers.
Handlers == {"h1", "h2"}
\* The handler functions that throw when they are invoked.
Throwing == {"h2"}
PingMethod == "ping"

\* A request of call() has the id i; a request of notify() has none (id 0) and
\* is the n-th notification.  serializable: JSON.stringify accepts its params.
CallReq(i, serializable) == [id |-> i, n |-> 0, serializable |-> serializable]
NotifyReq(n, serializable) == [id |-> 0, n |-> n, serializable |-> serializable]

\* Who waits on a connect() promise.
NoCont == [kind |-> "none", req |-> CallReq(0, TRUE)]
UserCont == [kind |-> "user", req |-> CallReq(0, TRUE)]
ReconnectCont == [kind |-> "reconnect", req |-> CallReq(0, TRUE)]
\* sendRequest's reactions close over the request.
SendCont(req) == [kind |-> "send", req |-> req]

Pow(b, n) == IF n = 0 THEN 1 ELSE LET p[k \in 0..n] == IF k = 0 THEN 1 ELSE b * p[k - 1] IN p[n]
Min(a, b) == IF a <= b THEN a ELSE b

\* Delays are kept in units of 1/DelayUnit ms, so that 1.5^(k-1) is exact for
\* every attempt number the options allow.
DelayUnit(opts) == Pow(2, opts.reconnectionAttempts)

\* A variant of the backoff that forgets the ceiling.
reconnectDelay_uncapped(opts, k) ==
    opts.reconnectionDelay * Pow(3, k - 1) * Pow(2, opts.reconnectionAttempts - (k - 1))

\* Math.min(reconnectionDelay * Math.pow(1.5, attempts - 1), reconnectionDelayMax)
reconnectDelay(opts, k) ==
    Min(opts.reconnectionDelay * Pow(3, k - 1) * Pow(2, opts.reconnectionAttempts - (k - 1)),
        opts.reconnectionDelayMax * DelayUnit(opts))

\* A URL is kept as the pieces url.split(':') yields: "wss://host/rpc" is
\* <<"wss", "//host/rpc">>, "host/rpc" is <<"host/rpc">> and '' is <<"">>.
NoUrl == <<"">>
HostUrl == <<"host/rpc">>
OtherUrl == <<"other/rpc">>
NoToken == ""

\* const protocols = ['ws:', 'wss:']
Protocols == {"ws:", "wss:"}

\* The constructor's rewrite of options.url, on a page served over https
\* (WS_PROTOCOL is 'wss:'): `${WS_PROTOCOL}//${url}` unless the first piece of
\* the URL is one of protocols.
constructorUrl(url) ==
    IF url # NoUrl /\ Head(url) \notin Protocols
    THEN <<"wss", "//" \o Head(url)>> \o Tail(url)
    ELSE url

\* new WebSocket(url) throws a SyntaxError unless url is absolute with the
\* scheme ws or wss.
ValidUrl(url) == Len(url) >= 2 /\ Head(url) \in {"ws", "wss"}

\* The options the instance is constructed with: without reconnection; with the
\* retries allowed and a ceiling the second delay stays under or reaches; with
\* one retry only.
OptionSets ==
    [url : {HostUrl}, token : {NoToken}, autoReconnect : {FALSE},
     reconnectionAttempts : {MaxAttempts},
     reconnectionDelay : {1000}, reconnectionDelayMax : {4000}]
    \cup [url : {HostUrl}, token : {NoToken}, autoReconnect : {TRUE},
          reconnectionAttempts : {MaxAttempts},
          reconnectionDelay : {1000}, reconnectionDelayMax : {1200, 4000}]
    \cup [url : {HostUrl}, token : {NoToken}, autoReconnect : {TRUE},
          reconnectionAttempts : {1},
          reconnectionDelay : {1000}, reconnectionDelayMax : {4000}]

\* What the callers do in one behaviour: the options they construct the service
\* with and how many sockets, calls, notifications, setOptions() calls and
\* subscriptions the behaviour goes up to.
Limits(socks, cls, nots, upds, subs) ==
    [sockets |-> socks, calls |-> cls, notifies |-> nots, updates |-> upds,
     subscriptions |-> subs, callers |-> TRUE, names |-> EventNames \ OwnNames]
\* The sockets of the behaviours in which other things happen beside connecting.
FewSockets == MaxSockets - 1
Scenario(o, l) == [options |-> o, limits |-> l]
\* The option sets the scenarios beside the first are run with.
TwoOptionSets ==
    {o \in OptionSets : o.reconnectionAttempts = MaxAttempts /\ o.reconnectionDelayMax = 4000}
Scenarios ==
    \* calls side by side on a service that is connected by hand
    {Scenario(o, Limits(FewSockets, MaxCalls, 0, 0, 0)) :
        o \in {o \in TwoOptionSets : ~o.autoReconnect}}
    \* connections alone, one after and over the other, with and without the
    \* reconnection policy
    \cup {Scenario(o, Limits(MaxSockets, 0, 0, 0, 0)) :
             o \in {o \in TwoOptionSets : o.autoReconnect}}
    \* connections over one another with the keepalive's call, the one call
    \cup {Scenario(o, [Limits(MaxSockets, 1, 0, 0, 0) EXCEPT !.callers = FALSE]) :
             o \in {o \in TwoOptionSets : ~o.autoReconnect}}
    \* the reconnection policy alone, over the other option sets that have it
    \cup {Scenario(o, Limits(FewSockets, 0, 0, 0, 0)) :
             o \in {o \in OptionSets \ TwoOptionSets : o.autoReconnect}}
    \* a notification beside a call
    \cup {Scenario(o, Limits(FewSockets, 1, 1, 0, 0)) : o \in TwoOptionSets}
    \* setOptions() on a service configured with a token
    \cup {Scenario([o EXCEPT !.token = "t1"], Limits(FewSockets, 0, 0, 1, 0)) :
             o \in TwoOptionSets}
    \* a service constructed without a URL, which setOptions() may supply
    \cup {Scenario([o EXCEPT !.url = NoUrl], Limits(1, 1, 0, 1, 0)) : o \in TwoOptionSets}
    \* a subscription to an event of the service's own, whose name the server
    \* uses as well, beside a call
    \cup {Scenario(o, [Limits(1, 1, 0, 0, 1) EXCEPT !.names = OwnNames]) :
             o \in {o \in TwoOptionSets : ~o.autoReconnect}}
    \* subscriptions on a service that is connected by hand
    \cup {Scenario(o, Limits(1, 0, 0, 0, MaxSubscriptions)) :
             o \in {o \in TwoOptionSets : ~o.autoReconnect}}

---------------------------------------------------------------------------
\* The state as one record, with the event log of the step started empty.
Begin ==
    [connectionState |-> connectionState, connected |-> connected,
     reconnecting |-> reconnecting, options |-> options, socket |-> socket,
     sockets |-> sockets, pendingRequests |-> pendingRequests,
     callTimers |-> callTimers, requestId |-> requestId, calls |-> calls,
     reconnectAttempts |-> reconnectAttempts, reconnectTimer |-> reconnectTimer,
     pingTimer |-> pingTimer, eventHandlers |-> eventHandlers,
     subscriptions |-> subscriptions, notifies |-> notifies, updates |-> updates,
     disconnectCalled |-> disconnectCalled,
     emitted |-> <<>>, invoked |-> <<>>, promises |-> <<>>]

\* The state a call of a caller starts from; disc tells whether, after it, the
\* last thing asked of the transport is to disconnect.
Asks(disc) == [Begin EXCEPT !.disconnectCalled = disc]

\* The step ends in state s; the model stops where a bound would be exceeded.
Commit(s) ==
    /\ Len(s.sockets) <= limits.sockets
    /\ s.requestId <= limits.calls
    /\ Len(s.notifies) <= limits.notifies
    /\ Len(s.subscriptions) <= limits.subscriptions
    /\ s.updates <= limits.updates
    /\ connectionState' = s.connectionState
    /\ connected' = s.connected
    /\ reconnecting' = s.reconnecting
    /\ options' = s.options
    /\ socket' = s.socket
    /\ sockets' = s.sockets
    /\ pendingRequests' = s.pendingRequests
    /\ callTimers' = s.callTimers
    /\ requestId' = s.requestId
    /\ calls' = s.calls
    /\ reconnectAttempts' = s.reconnectAttempts
    /\ reconnectTimer' = s.reconnectTimer
    /\ pingTimer' = s.pingTimer
    /\ eventHandlers' = s.eventHandlers
    /\ subscriptions' = s.subscriptions
    /\ notifies' = s.notifies
    /\ updates' = s.updates
    /\ disconnectCalled' = s.disconnectCalled
    /\ limits' = limits
    /\ emitted' = s.emitted
    /\ invoked' = s.invoked
    /\ promises' = s.promises

\* this.socket?.readyState === WebSocket.OPEN
socketOpen(s) == s.socket # 0 /\ s.sockets[s.socket].rs = WS_OPEN

\* An entry of a handler set: the function fn a caller passed to on() (sub is 0),
\* or the oneTimeHandler that the once() call returning Subscription sub made
\* around fn.  Every once() call makes a new function.
Fn(h) == [fn |-> h, sub |-> 0]
oneTimeHandler(h, i) == [fn |-> h, sub |-> i]

\* unsubscribe() of the i-th Subscription: handlers.delete(handler)
removeHandler(s, i) ==
    LET sub == s.subscriptions[i]
        entry == IF sub.kind = "once" THEN oneTimeHandler(sub.handler, i) ELSE Fn(sub.handler)
    IN [s EXCEPT !.eventHandlers[sub.eventType] = SelectSeq(@, LAMBDA e : e # entry)]

unsubscribe(s, i) == [removeHandler(s, i) EXCEPT !.subscriptions[i].active = FALSE]

\* A oneTimeHandler that calls the function it wraps without unsubscribing.
invoke_staysSubscribed(s, entry, under, arg) ==
    LET s1 == IF entry.sub # 0
              THEN [s EXCEPT !.subscriptions[entry.sub].delivered = @ + 1]
              ELSE s
    IN [s1 EXCEPT !.invoked = Append(@, [handler |-> entry.fn, via |-> entry.sub,
                                         under |-> under, arg |-> arg,
                                         threw |-> entry.fn \in Throwing])]

\* handler(arg) for one entry of a handler set: a oneTimeHandler unsubscribes
\* and then calls the function it wraps.  threw: the function threw.
invoke(s, entry, under, arg) ==
    LET s1 == IF entry.sub # 0
              THEN [removeHandler(s, entry.sub) EXCEPT !.subscriptions[entry.sub].delivered = @ + 1]
              ELSE s
    IN [s1 EXCEPT !.invoked = Append(@, [handler |-> entry.fn, via |-> entry.sub,
                                         under |-> under, arg |-> arg,
                                         threw |-> entry.fn \in Throwing])]

\* A dispatch loop without the try/catch: the first exception ends it.
RECURSIVE forEach_noCatch(_, _, _, _)
forEach_noCatch(s, handlers, under, arg) ==
    IF handlers = <<>> THEN s
    ELSE IF Head(handlers).fn \in Throwing
    THEN invoke(s, Head(handlers), under, arg)
    ELSE forEach_noCatch(invoke(s, Head(handlers), under, arg), Tail(handlers), under, arg)

\* handlers.forEach(handler => { try { handler(arg) } catch ... }): a Set
\* iterates in insertion order, and what a handler throws is caught and logged.
RECURSIVE forEach(_, _, _, _)
forEach(s, handlers, under, arg) ==
    IF handlers = <<>> THEN s
    ELSE forEach(invoke(s, Head(handlers), under, arg), Tail(handlers), under, arg)

\* emitEvent(eventType, data): the handlers registered under eventType get
\* data, then the handlers registered under '*' get {type, data}.
emitEvent(s, type, data) ==
    LET s1 == [s EXCEPT !.emitted = Append(@, [type |-> type, data |-> data])]
        s2 == IF type \in DOMAIN s1.eventHandlers
              THEN forEach(s1, s1.eventHandlers[type], type,
                           [wrapped |-> FALSE, type |-> "", data |-> data])
              ELSE s1
    IN forEach(s2, s2.eventHandlers["*"], "*",
               [wrapped |-> TRUE, type |-> type, data |-> data])

\* handlers.add(entry) and the Subscription returned.  History kept with it:
\* active (no unsubscribe() of it yet), off (off(eventType) was called since)
\* and delivered (how often its oneTimeHandler ran).
subscribe(s, eventType, handler, kind, entry) ==
    [s EXCEPT !.eventHandlers[eventType] =
                  IF \E n \in 1..Len(@) : @[n] = entry THEN @ ELSE Append(@, entry),
              !.subscriptions = Append(@, [eventType |-> eventType, handler |-> handler,
                                           kind |-> kind, active |-> TRUE, off |-> FALSE,
                                           delivered |-> 0])]

\* on(eventType, handler)
on(s, eventType, handler) == subscribe(s, eventType, handler, "on", Fn(handler))

\* once(eventType, handler)
once(s, eventType, handler) ==
    subscribe(s, eventType, handler, "once", oneTimeHandler(handler, Len(s.subscriptions) + 1))

\* An off() that empties the whole registry.
off_clearsAll(s, eventType) ==
    [s EXCEPT !.eventHandlers = [name \in EventNames |-> <<>>],
              !.subscriptions = [i \in DOMAIN @ |-> [@[i] EXCEPT !.off = TRUE]]]

\* off(eventType): this.eventHandlers.delete(eventType)
off(s, eventType) ==
    [s EXCEPT !.eventHandlers[eventType] = <<>>,
              !.subscriptions = [i \in DOMAIN @ |->
                                    IF @[i].eventType = eventType
                                    THEN [@[i] EXCEPT !.off = TRUE] ELSE @[i]]]

clearPingTimer(s) == [s EXCEPT !.pingTimer = FALSE]
clearReconnectTimer(s) == [s EXCEPT !.reconnectTimer = 0]
\* A teardown that cancels the timers of the calls in flight as well.
clearTimers_callsToo(s) == [clearReconnectTimer(clearPingTimer(s)) EXCEPT !.callTimers = {}]

clearTimers(s) == clearReconnectTimer(clearPingTimer(s))
startPingInterval(s) == [clearPingTimer(s) EXCEPT !.pingTimer = TRUE]

\* reject(reason) / resolve(value) of the promise call() returned for id i.
settleCall(s, i, fn, value) ==
    [s EXCEPT !.calls[i].settled = Append(@, [fn |-> fn, value |-> value])]

\* The catch handler of call(): sendRequest failed.
callCatch(s, i, error) ==
    settleCall([s EXCEPT !.callTimers = @ \ {i}, !.pendingRequests = @ \ {i}],
               i, "reject", error)

\* A policy that gives up into a state of its own, outside ConnectionState.
attemptReconnect_failedState(s) ==
    IF s.reconnecting THEN s
    ELSE IF s.reconnectAttempts >= s.options.reconnectionAttempts
    THEN emitEvent([s EXCEPT !.connectionState = "failed", !.reconnecting = FALSE],
                   "socket:reconnect_failed", <<>>)
    ELSE LET k == s.reconnectAttempts + 1
             delay == reconnectDelay(s.options, k)
             s1 == [s EXCEPT !.connectionState = RECONNECTING, !.reconnecting = TRUE,
                             !.reconnectAttempts = k]
             s2 == emitEvent(s1, "socket:reconnect_attempt", <<k, delay>>)
         IN [clearReconnectTimer(s2) EXCEPT !.reconnectTimer = delay]

\* attemptReconnect(), up to the arming of the timer
attemptReconnect(s) ==
    IF s.reconnecting THEN s
    ELSE IF s.reconnectAttempts >= s.options.reconnectionAttempts
    THEN emitEvent([s EXCEPT !.connectionState = DISCONNECTED, !.reconnecting = FALSE],
                   "socket:reconnect_failed", <<>>)
    ELSE LET k == s.reconnectAttempts + 1
             delay == reconnectDelay(s.options, k)
             s1 == [s EXCEPT !.connectionState = RECONNECTING, !.reconnecting = TRUE,
                             !.reconnectAttempts = k]
             s2 == emitEvent(s1, "socket:reconnect_attempt", <<k, delay>>)
         IN [clearReconnectTimer(s2) EXCEPT !.reconnectTimer = delay]

---------------------------------------------------------------------------
\* new WebSocket(url) with the four handlers of connect() and its timeout timer.
\* from remembers, while the socket is connecting, the state connect() was
\* called in.
newSocket(cont, from, url) ==
    [rs |-> WS_CONNECTING, opened |-> FALSE, promise |-> "pending", cont |-> cont,
     timer |-> TRUE, listeners |-> <<>>, closeRequested |-> 0, from |-> from,
     url |-> url]

\* The transport moves socket k to readyState rs.
setReadyState(s, k, rs) ==
    [s EXCEPT !.sockets[k].rs = rs, !.sockets[k].from = "",
              !.sockets[k].opened = (@ \/ rs = WS_OPEN),
              !.sockets[k].closeRequested = IF rs = WS_CLOSED THEN 0 ELSE @]

RECURSIVE runCont(_, _, _, _)

\* A promise of connect() or disconnect() is settled: k is the socket the
\* call made or closes (0 if none), by tells who holds the promise.
settle(s, of, k, by, how, error) ==
    [s EXCEPT !.promises = Append(@, [of |-> of, socket |-> k, by |-> by, how |-> how,
                                      error |-> error])]

\* The promise connect() returns is settled before connect() returns.
connectReturns(s, cont, how, error) ==
    runCont(settle(s, "connect", 0, cont.kind, how, error), cont, how, error)

\* A connect() that opens a transport whatever the state is.
connect_always(s, cont) ==
    IF s.options.url = NoUrl
    THEN connectReturns(s, cont, "rejected", "WebSocket URL not set")
    ELSE IF ~ValidUrl(s.options.url)
    THEN connectReturns([s EXCEPT !.connectionState = DISCONNECTED], cont,
                        "rejected", "SyntaxError")
    ELSE [s EXCEPT !.connectionState = CONNECTING,
                   !.sockets = Append(@, newSocket(cont, s.connectionState,
                                                   [url |-> s.options.url,
                                                    token |-> s.options.token])),
                   !.socket = Len(s.sockets) + 1]

\* connect(), with cont the reactions attached to the promise it returns
\* A connect() that treats a missing URL like a transport that cannot be made.
connect_noUrlDisconnects(s, cont) ==
    IF s.connectionState \in {CONNECTING, CONNECTED}
    THEN connectReturns(s, cont, "resolved", "none")
    ELSE IF s.options.url = NoUrl \/ ~ValidUrl(s.options.url)
    THEN connectReturns([s EXCEPT !.connectionState = DISCONNECTED], cont,
                        "rejected", "SyntaxError")
    ELSE [s EXCEPT !.connectionState = CONNECTING,
                   !.sockets = Append(@, newSocket(cont, s.connectionState,
                                                   [url |-> s.options.url,
                                                    token |-> s.options.token])),
                   !.socket = Len(s.sockets) + 1]

connect(s, cont) ==
    IF s.connectionState \in {CONNECTING, CONNECTED}
    THEN connectReturns(s, cont, "resolved", "none")
    ELSE IF s.options.url = NoUrl
    THEN connectReturns(s, cont, "rejected", "WebSocket URL not set")
    ELSE IF ~ValidUrl(s.options.url)
    THEN connectReturns([s EXCEPT !.connectionState = DISCONNECTED], cont,
                        "rejected", "SyntaxError")
    ELSE [s EXCEPT !.connectionState = CONNECTING,
                   !.sockets = Append(@, newSocket(cont, s.connectionState,
                                                   [url |-> s.options.url,
                                                    token |-> s.options.token])),
                   !.socket = Len(s.sockets) + 1]

\* socket.send(message) went through and sendRequest's promise resolves:
\* call() attaches no reaction to that, the caller of notify() observes it.
sendResolves(s, req) ==
    IF req.id # 0 THEN [s EXCEPT !.calls[req.id].sent = @ + 1]
    ELSE [s EXCEPT !.notifies[req.n].sent = @ + 1,
                   !.notifies[req.n].settled = Append(@, [fn |-> "resolve", value |-> "none"])]

\* sendRequest's promise rejects: call()'s catch handler runs, or the caller of
\* notify() observes it.
sendRejects(s, req, error) ==
    IF req.id # 0 THEN callCatch(s, req.id, error)
    ELSE [s EXCEPT !.notifies[req.n].settled = Append(@, [fn |-> "reject", value |-> error])]

\* A sendRequest() that defers through connect() while disconnecting as well.
sendRequest_defersDisconnecting(s, req) ==
    IF s.connected /\ socketOpen(s)
    THEN IF req.serializable
         THEN sendResolves(s, req)
         ELSE sendRejects(s, req, "TypeError")
    ELSE IF s.connectionState \in {DISCONNECTED, DISCONNECTING} /\ s.options.autoReconnect
         THEN connect(s, SendCont(req))
         ELSE sendRejects(s, req, "WebSocket is not connected")

\* sendRequest(request), with the reactions of its caller
sendRequest(s, req) ==
    IF s.connected /\ socketOpen(s)
    THEN IF req.serializable
         THEN sendResolves(s, req)
         ELSE sendRejects(s, req, "TypeError")
    ELSE IF s.connectionState = DISCONNECTED /\ s.options.autoReconnect
         THEN connect(s, SendCont(req))
         ELSE sendRejects(s, req, "WebSocket is not connected")

\* The reactions to a connect() promise: of attemptReconnect's timer callback,
\* of sendRequest, or of a caller outside the service.
runCont(s, cont, how, error) ==
    CASE cont.kind = "reconnect" ->
            IF how = "resolved"
            THEN emitEvent([s EXCEPT !.reconnecting = FALSE], "socket:reconnect_success",
                           <<s.reconnectAttempts>>)
            ELSE attemptReconnect(emitEvent(s, "socket:reconnect_error", <<>>))
      [] cont.kind = "send" ->
            IF how = "resolved" THEN sendRequest(s, cont.req)
            ELSE sendRejects(s, cont.req, error)
      [] OTHER -> s

\* resolve() / reject(error) of the promise of the connect() that made socket k:
\* a settled promise ignores it; settling runs the reactions and drops them.
settleConnect(s, k, how, error) ==
    IF s.sockets[k].promise # "pending" THEN s
    ELSE runCont(settle([s EXCEPT !.sockets[k].promise = how, !.sockets[k].cont = NoCont],
                        "connect", k, s.sockets[k].cont.kind, how, error),
                 s.sockets[k].cont, how, error)

\* An open handler that starts the correlation ids afresh on every connection.
handleOpen_resetsIds(s, k) ==
    LET s1 == [s EXCEPT !.connectionState = CONNECTED, !.connected = TRUE,
                        !.reconnectAttempts = 0, !.requestId = 0]
        s2 == emitEvent(startPingInterval(s1), "socket:connect", <<>>)
    IN settleConnect(s2, k, "resolved", "none")

\* handleOpen(resolveConnect)
handleOpen(s, k) ==
    LET s1 == [s EXCEPT !.connectionState = CONNECTED, !.connected = TRUE,
                        !.reconnectAttempts = 0]
        s2 == emitEvent(startPingInterval(s1), "socket:connect", <<>>)
    IN settleConnect(s2, k, "resolved", "none")

\* handleError(event, rejectConnect)
handleError(s, k) ==
    settleConnect(emitEvent(s, "socket:error", <<>>), k, "rejected", "WebSocket error")

\* A close handler that takes every close outside disconnect() for a failure.
handleClose_ignoresCode(s, code) ==
    LET s1 == clearTimers(s) IN
    IF s1.connectionState = DISCONNECTING
    THEN emitEvent([s1 EXCEPT !.connectionState = DISCONNECTED, !.connected = FALSE],
                   "socket:disconnect", <<code>>)
    ELSE LET s2 == [s1 EXCEPT !.connected = FALSE] IN
         IF s2.options.autoReconnect
         THEN attemptReconnect(s2)
         ELSE emitEvent([s2 EXCEPT !.connectionState = DISCONNECTED],
                        "socket:disconnect", <<code>>)

\* handleClose(event)
handleClose(s, code) ==
    LET s1 == clearTimers(s) IN
    IF s1.connectionState = DISCONNECTING \/ code = NormalClosure
    THEN emitEvent([s1 EXCEPT !.connectionState = DISCONNECTED, !.connected = FALSE],
                   "socket:disconnect", <<code>>)
    ELSE LET s2 == [s1 EXCEPT !.connected = FALSE] IN
         IF s2.options.autoReconnect
         THEN attemptReconnect(s2)
         ELSE emitEvent([s2 EXCEPT !.connectionState = DISCONNECTED],
                        "socket:disconnect", <<code>>)

\* The promise of a disconnect() resolves: by "setOptions" it is the one
\* setOptions() chained connect() to.
disconnectResolves(s, k, by) ==
    LET s1 == settle(s, "disconnect", k, by, "resolved", "none")
    IN IF by = "setOptions" THEN connect(s1, NoCont) ELSE s1

\* The onClose listeners disconnect() added to socket k, each followed by the
\* reactions to the promise it resolves.
RECURSIVE onCloseEach(_, _, _)
onCloseEach(s, k, listeners) ==
    IF listeners = <<>> THEN s
    ELSE onCloseEach(disconnectResolves([s EXCEPT !.connectionState = DISCONNECTED,
                                                  !.connected = FALSE],
                                        k, Head(listeners)),
                     k, Tail(listeners))

onClose(s, k) == onCloseEach([s EXCEPT !.sockets[k].listeners = <<>>], k, s.sockets[k].listeners)

\* socket.close(code): a socket that is not closed yet starts closing; code is
\* 1005 when close() is given none.
wsClose(s, k, code) ==
    IF s.sockets[k].rs \in {WS_CONNECTING, WS_OPEN}
    THEN [setReadyState(s, k, WS_CLOSING) EXCEPT !.sockets[k].closeRequested = code]
    ELSE s

\* The callback of connect()'s setTimeout, for the attempt that made socket k.
connectTimeout(s, k) ==
    LET s0 == [s EXCEPT !.sockets[k].timer = FALSE] IN
    IF s0.connectionState = CONNECTING
    THEN LET s1 == IF s0.socket # 0 /\ s0.sockets[s0.socket].rs = WS_CONNECTING
                   THEN wsClose(s0, s0.socket, 1005) ELSE s0
         IN settleConnect([s1 EXCEPT !.connectionState = DISCONNECTED], k,
                          "rejected", "Connection timeout")
    ELSE s0

\* disconnect(), with by the holder of the promise it returns
disconnect(s, by) ==
    IF s.connectionState \in {DISCONNECTED, DISCONNECTING} THEN disconnectResolves(s, 0, by)
    ELSE LET s1 == clearTimers([s EXCEPT !.connectionState = DISCONNECTING]) IN
         IF s1.socket # 0
         THEN IF s1.sockets[s1.socket].rs = WS_CLOSED
              THEN disconnectResolves([s1 EXCEPT !.connectionState = DISCONNECTED,
                                                 !.connected = FALSE], 0, by)
              ELSE wsClose([s1 EXCEPT !.sockets[s1.socket].listeners = Append(@, by)],
                           s1.socket, NormalClosure)
         ELSE disconnectResolves([s1 EXCEPT !.connectionState = DISCONNECTED,
                                            !.connected = FALSE], 0, by)

\* What setOptions() may be given: the fields present, and their values.
Partial(has, url, token) == [has |-> has, url |-> url, token |-> token]
Partials ==
    {Partial({"url"}, u, NoToken) : u \in {NoUrl, OtherUrl, constructorUrl(OtherUrl),
                                           constructorUrl(HostUrl)}}
    \cup {Partial({"token"}, NoUrl, tk) : tk \in {"t1", "t2", NoToken}}

\* setOptions(options)
setOptions(s, partial) ==
    LET wasConnected == s.connected
        urlChanged == /\ "url" \in partial.has /\ partial.url # NoUrl
                      /\ partial.url # s.options.url
        tokenChanged == /\ "token" \in partial.has /\ partial.token # NoToken
                        /\ partial.token # s.options.token
        s1 == [s EXCEPT !.updates = @ + 1,
                        !.options.url = IF "url" \in partial.has THEN partial.url ELSE @,
                        !.options.token = IF "token" \in partial.has THEN partial.token ELSE @]
    IN IF wasConnected /\ (urlChanged \/ tokenChanged)
       THEN disconnect(s1, "setOptions") ELSE s1

---------------------------------------------------------------------------
\* Inbound frames.  id is absent, null, the string `${n}` or the number n.
NoId == [t |-> "absent", n |-> 0]
NullId == [t |-> "null", n |-> 0]
StrId(n) == [t |-> "str", n |-> n]
NumId(n) == [t |-> "num", n |-> n]

frame(id, result, error, method) ==
    [parses |-> TRUE, id |-> id, result |-> result, error |-> error, method |-> method,
     params |-> IF method = "absent" THEN <<>> ELSE <<1>>]

ResponseIds == {NullId, NumId(1)} \cup {StrId(n) : n \in 1..(MaxCalls + 1)}

Frames ==
    {frame(id, "value", "absent", "absent") : id \in ResponseIds}
    \cup {frame(StrId(n), "absent", "object", "absent") : n \in 1..MaxCalls}
    \cup {frame(StrId(1), "value", "object", "absent"),
          frame(StrId(1), "absent", "null", "absent"),
          frame(NoId, "absent", "absent", "room:chat_message"),
          frame(NoId, "absent", "absent", "*"),
          frame(NoId, "absent", "absent", "socket:connect"),
          frame(StrId(1), "absent", "absent", "room:chat_message"),
          frame(NoId, "absent", "absent", "absent"),
          [frame(NoId, "absent", "absent", "absent") EXCEPT !.parses = FALSE]}

\* A handler whose error branch lacks its return and goes on to resolve.
handleResponse_noReturn(s, response) ==
    IF response.id.t = "null" THEN s
    ELSE IF response.id.t = "str" /\ response.id.n \in s.pendingRequests
    THEN LET id == response.id.n
             s1 == [s EXCEPT !.callTimers = @ \ {id}, !.pendingRequests = @ \ {id}]
         IN IF response.error = "object"
            THEN settleCall(settleCall(s1, id, "reject", "RpcError"), id, "resolve", "result")
            ELSE settleCall(s1, id, "resolve", "result")
    ELSE s

\* handleResponse(response)
handleResponse(s, response) ==
    IF response.id.t = "null" THEN s
    ELSE IF response.id.t = "str" /\ response.id.n \in s.pendingRequests
    THEN LET id == response.id.n
             s1 == [s EXCEPT !.callTimers = @ \ {id}, !.pendingRequests = @ \ {id}]
         IN IF response.error = "object"
            THEN settleCall(s1, id, "reject", "RpcError")
            ELSE settleCall(s1, id, "resolve", "result")
    ELSE s

\* handleNotification(notification)
handleNotification(s, notification) ==
    emitEvent(s, notification.method, notification.params)

\* handleMessage(event)
handleMessage(s, data) ==
    IF ~data.parses THEN s
    ELSE IF data.id.t # "absent" /\ (data.result # "absent" \/ data.error # "absent")
    THEN handleResponse(s, data)
    ELSE IF data.method # "absent" THEN handleNotification(s, data)
    ELSE s

\* call(method, params, timeout)
call(s, method, serializable) ==
    LET id == s.requestId + 1
        s1 == [s EXCEPT !.requestId = id,
                        !.calls = Append(@, [method |-> method, sent |-> 0, settled |-> <<>>]),
                        !.callTimers = @ \cup {id},
                        !.pendingRequests = @ \cup {id}]
    IN sendRequest(s1, CallReq(id, serializable))

\* notify(method, params)
notify(s, method, serializable) ==
    LET n == Len(s.notifies) + 1
        s1 == [s EXCEPT !.notifies = Append(@, [method |-> method, sent |-> 0,
                                                settled |-> <<>>])]
    IN sendRequest(s1, NotifyReq(n, serializable))

\* A timeout callback that rejects without forgetting the call.
callTimeout_keepsEntry(s, id) ==
    LET s0 == [s EXCEPT !.callTimers = @ \ {id}] IN
    IF id \in s0.pendingRequests
    THEN settleCall(s0, id, "reject", "Request timeout: " \o s0.calls[id].method)
    ELSE s0

\* A timeout callback that gives up every call in flight with its own.
callTimeout_failsAll(s, id) ==
    LET s0 == [s EXCEPT !.callTimers = {}] IN
    IF id \in s0.pendingRequests
    THEN settleCall([s0 EXCEPT !.pendingRequests = {}], id, "reject",
                    "Request timeout: " \o s0.calls[id].method)
    ELSE s0

\* The callback of call()'s setTimeout.
callTimeout(s, id) ==
    LET s0 == [s EXCEPT !.callTimers = @ \ {id}] IN
    IF id \in s0.pendingRequests
    THEN settleCall([s0 EXCEPT !.pendingRequests = @ \ {id}], id, "reject",
                    "Request timeout: " \o s0.calls[id].method)
    ELSE s0

\* An interval callback that pings without looking at the connection.
pingTick_unconditional(s) == call(s, PingMethod, TRUE)

\* The callback of startPingInterval()'s setInterval.
pingTick(s) ==
    IF s.connected /\ socketOpen(s) THEN call(s, PingMethod, TRUE) ELSE s

\* The callback of attemptReconnect()'s setTimeout.
reconnectTimeout(s) == connect([s EXCEPT !.reconnectTimer = 0], ReconnectCont)

\* Socket k is closed: its close event runs handleClose, then the listeners.
closeEvent(s, k, code) == onClose(handleClose(s, code), k)

---------------------------------------------------------------------------
\* The constructor: the options are merged, the URL is rewritten, and the
\* service connects at once if autoReconnect is set and there is a URL.
Init ==
    \E sc \in Scenarios :
    /\ limits = sc.limits
    /\ options = [sc.options EXCEPT !.url = constructorUrl(@)]
    /\ LET s0 == [connectionState |-> DISCONNECTED, connected |-> FALSE,
                  reconnecting |-> FALSE, options |-> options, socket |-> 0,
                  sockets |-> <<>>, pendingRequests |-> {}, callTimers |-> {},
                  requestId |-> 0, calls |-> <<>>, reconnectAttempts |-> 0,
                  reconnectTimer |-> 0, pingTimer |-> FALSE,
                  eventHandlers |-> [name \in EventNames |-> <<>>],
                  subscriptions |-> <<>>, notifies |-> <<>>, updates |-> 0,
                  disconnectCalled |-> FALSE,
                  emitted |-> <<>>, invoked |-> <<>>, promises |-> <<>>]
           s == IF options.autoReconnect /\ options.url # NoUrl THEN connect(s0, NoCont) ELSE s0
       IN /\ eventHandlers = s.eventHandlers
          /\ subscriptions = s.subscriptions
          /\ notifies = s.notifies
          /\ updates = s.updates
          /\ disconnectCalled = s.disconnectCalled
          /\ invoked = s.invoked
          /\ promises = s.promises
          /\ connectionState = s.connectionState
          /\ connected = s.connected
          /\ reconnecting = s.reconnecting
          /\ socket = s.socket
          /\ sockets = s.sockets
          /\ pendingRequests = s.pendingRequests
          /\ callTimers = s.callTimers
          /\ requestId = s.requestId
          /\ calls = s.calls
          /\ reconnectAttempts = s.reconnectAttempts
          /\ reconnectTimer = s.reconnectTimer
          /\ pingTimer = s.pingTimer
          /\ emitted = s.emitted

\* A caller invokes connect().
Connect ==
    /\ connectionState \in ConnectionState
    /\ Commit(connect(Asks(FALSE), UserCont))

\* A caller invokes disconnect().
Disconnect ==
    /\ connectionState \in ConnectionState
    /\ Commit(disconnect(Asks(connectionState \in {CONNECTED, CONNECTING, RECONNECTING}
                                \/ disconnectCalled), "user"))

\* A caller invokes setOptions().
SetOptions(partial) ==
    /\ updates < limits.updates
    /\ Commit(setOptions(Asks(FALSE), partial))

\* A caller invokes on().
On(eventType, handler) ==
    /\ eventType \in limits.names
    /\ Len(subscriptions) < limits.subscriptions
    /\ Commit(on(Begin, eventType, handler))

\* A caller invokes once().
Once(eventType, handler) ==
    /\ eventType \in limits.names
    /\ Len(subscriptions) < limits.subscriptions
    /\ Commit(once(Begin, eventType, handler))

\* A caller invokes off().
Off(eventType) ==
    /\ eventType \in limits.names
    /\ limits.subscriptions > 0
    /\ Commit(off(Begin, eventType))

\* A caller invokes unsubscribe() of the i-th Subscription.
Unsubscribe(i) ==
    /\ i \in 1..Len(subscriptions)
    /\ Commit(unsubscribe(Begin, i))

\* A caller invokes notify().
Notify(method, serializable) ==
    /\ Len(notifies) < limits.notifies
    /\ Commit(notify(Asks(FALSE), method, serializable))

\* A caller invokes call(); params that JSON.stringify rejects make the send throw.
Call(method, serializable) ==
    /\ limits.callers
    /\ requestId < limits.calls
    /\ Commit(call(Asks(FALSE), method, serializable))

\* The timeout timer of call id fires.
CallTimeout(id) ==
    /\ id \in callTimers
    /\ Commit(callTimeout(Begin, id))

\* The connection-timeout timer of the connect() that made socket k fires.
ConnectTimeout(k) ==
    /\ k \in 1..Len(sockets)
    /\ sockets[k].timer
    /\ Commit(connectTimeout(Begin, k))

\* The reconnection timer fires.
ReconnectTimeout ==
    /\ reconnectTimer # 0
    /\ Commit(reconnectTimeout(Begin))

\* The keepalive interval fires.
PingTick ==
    /\ pingTimer
    /\ Commit(pingTick(Begin))

\* The transport of socket k is established: the open event.
SocketOpen(k) ==
    /\ k \in 1..Len(sockets)
    /\ sockets[k].rs = WS_CONNECTING
    /\ Commit(handleOpen(setReadyState(Begin, k, WS_OPEN), k))

\* The connection of socket k fails before it opened (or it was closed first):
\* the error event, then the close event with code 1006.
SocketFail(k) ==
    /\ k \in 1..Len(sockets)
    /\ sockets[k].rs \in {WS_CONNECTING, WS_CLOSING}
    /\ ~sockets[k].opened
    /\ Commit(closeEvent(handleError(setReadyState(Begin, k, WS_CLOSED), k), k, 1006))

\* The connection of an opened socket k ends: the peer closed it, the closing
\* handshake completed, or it was lost (then an error event may come first).
SocketClose(k, code, withError) ==
    /\ k \in 1..Len(sockets)
    /\ sockets[k].rs \in {WS_OPEN, WS_CLOSING}
    /\ sockets[k].opened
    /\ withError => code = 1006
    /\ LET s0 == setReadyState(Begin, k, WS_CLOSED)
       IN Commit(closeEvent(IF withError THEN handleError(s0, k) ELSE s0, k, code))

\* A frame arrives on the open socket k.
Message(k, data) ==
    /\ k \in 1..Len(sockets)
    /\ sockets[k].rs = WS_OPEN
    /\ data.method \in limits.names \cup {"absent"}
    /\ Commit(handleMessage(Begin, data))

Next ==
    \/ Connect
    \/ Disconnect
    \/ \E partial \in Partials : SetOptions(partial)
    \/ \E name \in EventNames, h \in Handlers : On(name, h)
    \/ \E name \in EventNames, h \in Handlers : Once(name, h)
    \/ \E name \in EventNames : Off(name)
    \/ \E i \in 1..MaxSubscriptions : Unsubscribe(i)
    \/ \E m \in Methods, ok \in BOOLEAN : Call(m, ok)
    \/ \E m \in Methods, ok \in BOOLEAN : Notify(m, ok)
    \/ \E id \in 1..MaxCalls : CallTimeout(id)
    \/ \E k \in 1..MaxSockets : ConnectTimeout(k)
    \/ ReconnectTimeout
    \/ PingTick
    \/ \E k \in 1..MaxSockets : SocketOpen(k)
    \/ \E k \in 1..MaxSockets : SocketFail(k)
    \/ \E k \in 1..MaxSockets, code \in CloseCodes, withError \in BOOLEAN :
          SocketClose(k, code, withError)
    \/ \E k \in 1..MaxSockets, data \in Frames : Message(k, data)

Spec == Init /\ [][Next]_vars

\* The event loop runs the callback of every timer that stays armed.  The
\* backoff parameters play no part in the fate of a call, so one ceiling is
\* kept, and so are the behaviours in which the callers make calls.
InitFair ==
    /\ Init
    /\ options.reconnectionAttempts = MaxAttempts /\ options.reconnectionDelayMax = 4000
    /\ limits.calls > 0 /\ limits.callers
SpecFair == InitFair /\ [][Next]_vars /\ \A id \in 1..MaxCalls : WF_vars(CallTimeout(id))

---------------------------------------------------------------------------
\* What the claims observe.
Ids == 1..MaxCalls
Issued == 1..Len(calls)
SocketIds == 1..MaxSockets
EventTypes == {emitted[n].type : n \in 1..Len(emitted)}
TimeoutError(id) ==
    [fn |-> "reject",
     value |-> IF calls[id].method = "ping" THEN "Request timeout: ping"
               ELSE "Request timeout: user.getProfile"]
TimedOut(id) == id \in Issued /\ calls[id].settled # <<>> /\ calls[id].settled[1] = TimeoutError(id)
IsResponse(data) ==
    data.parses /\ data.id.t # "absent" /\ (data.result # "absent" \/ data.error # "absent")

\* C1: the promise of every call() is settled exactly once: resolve and reject
\* are never both invoked for one call, and neither is invoked twice.
C1_SettledAtMostOnce == \A id \in Issued : Len(calls[id].settled) <= 1

\* C2: when the timer of a call fires before a matching response, the call is
\* rejected with the timeout error naming its method and its id leaves the
\* table; a response for that id arriving later settles nothing and changes
\* neither the table nor the connection state.
C2_TimeoutCleanup ==
    [][/\ \A id \in Ids :
            CallTimeout(id) =>
                /\ id \notin pendingRequests'
                /\ calls'[id].settled = <<TimeoutError(id)>>
       /\ \A k \in SocketIds, data \in Frames :
            (IsResponse(data) /\ data.id.t = "str" /\ TimedOut(data.id.n) /\ Message(k, data)) =>
                /\ calls' = calls
                /\ pendingRequests' = pendingRequests
                /\ callTimers' = callTimers
                /\ connectionState' = connectionState]_vars

\* C2 witness: a call that was transmitted has timed out and left the table,
\* while its socket is still open for a late response.
C2_Witness ==
    \E id \in Issued :
        /\ TimedOut(id) /\ calls[id].sent = 1 /\ id \notin pendingRequests
        /\ socket # 0 /\ sockets[socket].rs = WS_OPEN

\* C3: a response whose id is that of a pending call settles exactly that call
\* (reject with the error object if there is one, else resolve), cancels its
\* timer and removes its entry; a response whose id matches no pending entry
\* settles nothing and leaves the table as it is.
C3_ResponseCorrelation ==
    [][\A k \in SocketIds, data \in Frames :
          (IsResponse(data) /\ Message(k, data)) =>
              IF data.id.t = "str" /\ data.id.n \in pendingRequests
              THEN LET id == data.id.n IN
                   /\ calls[id].settled = <<>>
                   /\ calls'[id].settled =
                        <<IF data.error = "object"
                          THEN [fn |-> "reject", value |-> "RpcError"]
                          ELSE [fn |-> "resolve", value |-> "result"]>>
                   /\ \A other \in Issued \ {id} : calls'[other] = calls[other]
                   /\ pendingRequests' = pendingRequests \ {id}
                   /\ callTimers' = callTimers \ {id}
              ELSE /\ calls' = calls
                   /\ pendingRequests' = pendingRequests
                   /\ callTimers' = callTimers]_vars

\* C3 witness: a response has resolved one call while another is still pending.
C3_Witness ==
    \E id \in Issued, other \in pendingRequests :
        /\ id # other
        /\ calls[id].settled = <<[fn |-> "resolve", value |-> "result"]>>
        /\ id \notin pendingRequests /\ id \notin callTimers

\* C4: every call() is eventually settled and its entry removed, also when
\* disconnect() or a transport close happens while it is in flight: neither
\* cancels it (the entry and its timer stay), and a later response or its own
\* timeout settles it.
C4_CallsSettle ==
    /\ \A id \in Ids :
          (id \in pendingRequests) ~>
              (id \in Issued /\ id \notin pendingRequests /\ calls[id].settled # <<>>)
    /\ [][\A id \in pendingRequests :
             (calls[id].sent = 1 /\ (Disconnect \/ \E k \in SocketIds, c \in CloseCodes,
                                        e \in BOOLEAN : SocketClose(k, c, e))) =>
                 /\ id \in pendingRequests' /\ id \in callTimers'
                 /\ calls'[id] = calls[id]]_vars

\* C4 witness: a transmitted call is still pending after the service went
\* through disconnect() or a close.
C4_Witness ==
    \E id \in pendingRequests :
        /\ calls[id].sent = 1 /\ id \in callTimers
        /\ connectionState \in {DISCONNECTING, DISCONNECTED}
        /\ \A k \in 1..Len(sockets) : sockets[k].rs \in {WS_CLOSING, WS_CLOSED}

\* The delay the backoff rule asks for before retry k, for the base delay of
\* 1000 ms the option sets use: 1000 * 1.5^(k-1) ms up to the ceiling, in the
\* unit of reconnectTimer.
BackoffMs == <<1000, 1500, 2250, 3375>>
ExpectedDelay(k) ==
    (IF BackoffMs[k] < options.reconnectionDelayMax THEN BackoffMs[k]
     ELSE options.reconnectionDelayMax) * DelayUnit(options)

\* The connect attempt that made socket k is a retry of the reconnection policy
\* and this step makes it fail: the transport errors, or its timeout elapses.
RetryFails(k) ==
    /\ k \in 1..Len(sockets)
    /\ sockets[k].cont.kind = "reconnect"
    /\ SocketFail(k) \/ (connectionState = CONNECTING /\ ConnectTimeout(k))

\* C5: every close with a code other than 1000 in state CONNECTED leads to
\* RECONNECTING with a retry scheduled if autoReconnect is set, and to
\* DISCONNECTED with no retry scheduled if it is not, whatever happened before.
C5_UnexpectedClose ==
    [][\A e \in BOOLEAN :
          (connectionState = CONNECTED /\ socket # 0 /\ SocketClose(socket, 1006, e)) =>
              IF options.autoReconnect
              THEN connectionState' = RECONNECTING /\ reconnectTimer' # 0
              ELSE connectionState' = DISCONNECTED /\ reconnectTimer' = 0]_vars

\* C6: while reconnecting, a failed retry increments the attempt counter and
\* schedules a further retry with the backoff delay of the new attempt number,
\* as long as the counter has not reached reconnectionAttempts.
C6_FailedRetryReschedules ==
    [][\A k \in SocketIds :
          (reconnectAttempts < options.reconnectionAttempts /\ RetryFails(k)) =>
              /\ reconnectAttempts' = reconnectAttempts + 1
              /\ reconnectTimer' = ExpectedDelay(reconnectAttempts + 1)
              /\ connectionState' = RECONNECTING]_vars

\* C7: when the last retry the options allow fails, the reconnection loop ends:
\* the state becomes DISCONNECTED and socket:reconnect_failed is emitted.
C7_LoopGivesUp ==
    [][\A k \in SocketIds :
          (reconnectAttempts >= options.reconnectionAttempts /\ RetryFails(k)) =>
              /\ connectionState' = DISCONNECTED
              /\ reconnectTimer' = 0
              /\ "socket:reconnect_failed" \in EventTypes']_vars

\* The disconnect() that closes socket k is the one of setOptions(), which
\* connects again as soon as the close is observed.
ClosedBySetOptions(k) ==
    \E n \in 1..Len(sockets[k].listeners) : sockets[k].listeners[n] = "setOptions"

\* C8: a close with code 1000, or any close observed in state DISCONNECTING,
\* moves the state to DISCONNECTED and starts no reconnection attempt, whatever
\* autoReconnect is.  (Where the close ends the disconnect() of setOptions(),
\* the connect() chained to it follows in the same step; the reconnection
\* policy stays out of it all the same.)
C8_CleanClose ==
    [][\A k \in SocketIds :
          (\/ \E c \in CloseCodes, e \in BOOLEAN :
                 (c = NormalClosure \/ connectionState = DISCONNECTING) /\ SocketClose(k, c, e)
           \/ connectionState = DISCONNECTING /\ SocketFail(k)) =>
              /\ ~connected'
              /\ reconnectTimer' = 0
              /\ reconnectAttempts' = reconnectAttempts
              /\ reconnecting' = reconnecting
              /\ "socket:reconnect_attempt" \notin EventTypes'
              /\ "socket:disconnect" \in EventTypes'
              /\ ~ClosedBySetOptions(k) =>
                    /\ connectionState' = DISCONNECTED
                    /\ sockets' = [sockets EXCEPT ![k] = sockets'[k]]]_vars

\* C8 witness: with autoReconnect set, the open transport closed with code 1000
\* and the service is DISCONNECTED with no retry scheduled.
C8_Witness ==
    /\ options.autoReconnect
    /\ emitted = <<[type |-> "socket:disconnect", data |-> <<NormalClosure>>]>>
    /\ connectionState = DISCONNECTED /\ reconnectTimer = 0

C10_ConnectPath ==
    [][/\ (connectionState = DISCONNECTED /\ Connect) =>
             /\ connectionState' = CONNECTING
             /\ Len(sockets') = Len(sockets) + 1
       /\ \A k \in 1..Len(sockets') :
             (sockets'[k].rs = WS_CONNECTING /\ sockets'[k].from = DISCONNECTED) =>
                 connectionState' = CONNECTING
       /\ \A k \in 1..Len(sockets) :
             (sockets[k].from = DISCONNECTED /\ SocketOpen(k)) =>
                 /\ connectionState = CONNECTING
                 /\ connectionState' = CONNECTED
                 /\ reconnectAttempts' = 0
                 /\ pingTimer'
                 /\ sockets'[k].promise = "resolved"]_vars

\* The promises settled in the last step, as a set.
Settled == {promises[n] : n \in 1..Len(promises)}
ConnectSettled(k, how, error) ==
    \E pr \in Settled : /\ pr.of = "connect" /\ pr.socket = k
                         /\ pr.how = how /\ pr.error = error

\* C11: when the timeout of a connect() attempt elapses and its transport has
\* neither opened nor failed, the state becomes DISCONNECTED and the promise of
\* that attempt is rejected with the connection-timeout error.
C11_ConnectTimeout ==
    [][\A k \in SocketIds :
          (/\ k <= Len(sockets)
           /\ sockets[k].rs = WS_CONNECTING
           /\ sockets[k].promise = "pending"
           /\ ConnectTimeout(k)) =>
              /\ connectionState' = DISCONNECTED
              /\ sockets'[k].promise = "rejected"
              /\ ConnectSettled(k, "rejected", "Connection timeout")']_vars

\* connect() returned a promise that is settled already.
ConnectReturned(by, how, error) ==
    [of |-> "connect", socket |-> 0, by |-> by, how |-> how, error |-> error] \in Settled

\* C12: connect() in state CONNECTING or CONNECTED creates no socket, arms no
\* timer, leaves the connection state as it is and returns a promise that is
\* resolved already; so does the connect() of a reconnection timer that fires
\* in one of these states.
C12_IdempotentConnect ==
    [][/\ (connectionState \in {CONNECTING, CONNECTED} /\ Connect) =>
             /\ sockets' = sockets /\ socket' = socket
             /\ connectionState' = connectionState /\ connected' = connected
             /\ reconnectTimer' = reconnectTimer /\ pingTimer' = pingTimer
             /\ callTimers' = callTimers
             /\ emitted' = <<>>
             /\ promises' = <<[of |-> "connect", socket |-> 0, by |-> "user",
                               how |-> "resolved", error |-> "none"]>>
       /\ (connectionState \in {CONNECTING, CONNECTED} /\ ReconnectTimeout) =>
             /\ sockets' = sockets /\ socket' = socket
             /\ connectionState' = connectionState
             /\ pingTimer' = pingTimer
             /\ ConnectReturned("reconnect", "resolved", "none")']_vars

\* C12 witness: connect() has just returned a resolved promise while the
\* transport of an earlier connect() is still opening.
C12_Witness ==
    /\ connectionState = CONNECTING
    /\ ConnectReturned("user", "resolved", "none")
    /\ socket # 0 /\ sockets[socket].rs = WS_CONNECTING /\ sockets[socket].promise = "pending"

\* The transport is not connected, in one of the states the deferral is
\* specified for.
NotConnected ==
    /\ connectionState \in {DISCONNECTED, CONNECTING, RECONNECTING}
    /\ ~(connected /\ socket # 0 /\ sockets[socket].rs = WS_OPEN)

NotConnectedError == <<[fn |-> "reject", value |-> "WebSocket is not connected"]>>

\* What became of the promise of request req, and how often its frame was sent.
SettledOf(cs, ns, req) == IF req.id # 0 THEN cs[req.id].settled ELSE ns[req.n].settled
SentOf(cs, ns, req) == IF req.id # 0 THEN cs[req.id].sent ELSE ns[req.n].sent

\* The request of this step is deferred: nothing is sent or settled, and it
\* waits on the promise of a connect() attempt.
Deferred(req) ==
    /\ SettledOf(calls', notifies', req) = <<>>
    /\ SentOf(calls', notifies', req) = 0
    /\ \E k \in 1..Len(sockets') : sockets'[k].cont = SendCont(req)

\* C13: call() and notify() on a transport that is not connected (state
\* DISCONNECTED, CONNECTING or RECONNECTING) are deferred through a connect()
\* attempt if autoReconnect is set and rejected with the not-connected error
\* if it is not; a deferred frame is sent when that attempt connects, and the
\* promise is rejected with the not-connected error when that attempt fails.
C13_DeferredSend ==
    [][/\ \A m \in Methods :
             /\ (NotConnected /\ Call(m, TRUE)) =>
                    IF options.autoReconnect
                    THEN Deferred(CallReq(requestId', TRUE))
                    ELSE calls'[requestId'].settled = NotConnectedError
             /\ (NotConnected /\ Notify(m, TRUE)) =>
                    IF options.autoReconnect
                    THEN Deferred(NotifyReq(Len(notifies'), TRUE))
                    ELSE notifies'[Len(notifies')].settled = NotConnectedError
       /\ \A k \in SocketIds :
             (k <= Len(sockets) /\ sockets[k].cont.kind = "send") =>
                 LET req == sockets[k].cont.req IN
                 /\ SocketOpen(k) =>
                        SentOf(calls', notifies', req) = SentOf(calls, notifies, req) + 1
                 /\ (SocketFail(k) \/ (ConnectTimeout(k) /\ sockets'[k].promise = "rejected")) =>
                        /\ SentOf(calls', notifies', req) = SentOf(calls, notifies, req)
                        /\ \E n \in 1..Len(SettledOf(calls', notifies', req)) :
                               SettledOf(calls', notifies', req)[n] = NotConnectedError[1]]_vars

\* The step leaves the transports, the connection state and the timers of the
\* service alone.
NoTransportAction ==
    /\ sockets' = sockets /\ socket' = socket
    /\ connectionState' = connectionState /\ connected' = connected
    /\ reconnectTimer' = reconnectTimer /\ pingTimer' = pingTimer
    /\ reconnectAttempts' = reconnectAttempts /\ reconnecting' = reconnecting

\* C14: call() and notify() in state DISCONNECTING are rejected with the
\* not-connected error; no frame is sent on the closing transport and no
\* connection attempt is started.
C14_SendWhileDisconnecting ==
    [][\A m \in Methods, ok \in BOOLEAN :
          /\ (connectionState = DISCONNECTING /\ Call(m, ok)) =>
                 /\ calls'[requestId'].settled = NotConnectedError
                 /\ calls'[requestId'].sent = 0
                 /\ requestId' \notin pendingRequests' /\ requestId' \notin callTimers'
                 /\ NoTransportAction
          /\ (connectionState = DISCONNECTING /\ Notify(m, ok)) =>
                 /\ notifies'[Len(notifies')].settled = NotConnectedError
                 /\ notifies'[Len(notifies')].sent = 0
                 /\ NoTransportAction]_vars

\* C14 witness: on the only transport there has been, a first call was sent;
\* a second call, made after disconnect() while that transport is closing, has
\* been rejected without a frame.
C14_Witness ==
    /\ connectionState = DISCONNECTING
    /\ Len(sockets) = 1 /\ sockets[1].rs = WS_CLOSING /\ sockets[1].opened
    /\ Len(calls) = 2
    /\ calls[1].sent = 1
    /\ calls[2].settled = NotConnectedError /\ calls[2].sent = 0

\* C15: when a promise returned by disconnect() to a caller resolves, the
\* state is DISCONNECTED and no transport is open, opening or closing; if it
\* resolves on a close event, that close was requested with code 1000 and the
\* state was DISCONNECTING until then.
C15_DisconnectResolves ==
    [][\A pr \in Settled' :
          (pr.of = "disconnect" /\ pr.by = "user") =>
              /\ connectionState' = DISCONNECTED
              /\ ~connected'
              /\ \A k \in 1..Len(sockets') : sockets'[k].rs = WS_CLOSED
              /\ pr.socket # 0 =>
                    /\ connectionState = DISCONNECTING
                    /\ sockets[pr.socket].closeRequested = NormalClosure]_vars

\* This step issues a keepalive ping.
PingIssued == requestId' = requestId + 1 /\ calls'[requestId'].method = PingMethod

\* C16: disconnect() in state CONNECTED, CONNECTING or RECONNECTING cancels the
\* keepalive and the reconnection timer, and from then until a caller asks for
\* the transport again (connect, call, notify, setOptions) no ping is issued,
\* no transport is opened and no retry of the reconnection policy is scheduled.
C16_DisconnectCancels ==
    [][/\ (connectionState \in {CONNECTED, CONNECTING, RECONNECTING} /\ Disconnect) =>
             ~pingTimer' /\ reconnectTimer' = 0
       /\ disconnectCalled' =>
             /\ ~PingIssued
             /\ Len(sockets') = Len(sockets)
             /\ reconnectTimer' = 0]_vars

\* The options after setOptions(partial).
Merged(partial) ==
    [options EXCEPT !.url = IF "url" \in partial.has THEN partial.url ELSE @,
                    !.token = IF "token" \in partial.has THEN partial.token ELSE @]

\* setOptions(partial) gives the URL or the token a different value.
Changes(partial) ==
    \/ "url" \in partial.has /\ partial.url # options.url
    \/ "token" \in partial.has /\ partial.token # options.token

\* The last socket was made in this step, for the options of the next state.
ConnectsWithNewOptions ==
    /\ Len(sockets') = Len(sockets) + 1
    /\ socket' = Len(sockets')
    /\ sockets'[socket'].rs = WS_CONNECTING
    /\ sockets'[socket'].url = [url |-> options'.url, token |-> options'.token]

\* C17: setOptions() merges the options given into the configuration.  On a
\* connected service, a call that changes the URL or the token starts a clean
\* disconnect (close requested with code 1000) and, once the close is observed,
\* a connect() with the new options follows; a call that changes neither, or
\* any call on a service that is not connected, touches no transport.
C17_SetOptions ==
    [][/\ \A partial \in Partials :
             SetOptions(partial) =>
                 /\ options' = Merged(partial)
                 /\ IF connected /\ connectionState = CONNECTED /\ Changes(partial)
                    THEN /\ connectionState' = DISCONNECTING
                         /\ sockets'[socket].rs = WS_CLOSING
                         /\ sockets'[socket].closeRequested = NormalClosure
                         /\ ClosedBySetOptions(socket)'
                    ELSE (~connected \/ ~Changes(partial)) => NoTransportAction
       /\ \A k \in SocketIds, c \in CloseCodes, e \in BOOLEAN :
             (k <= Len(sockets) /\ ClosedBySetOptions(k) /\ SocketClose(k, c, e)) =>
                 ConnectsWithNewOptions]_vars

\* C18: every URL a transport is constructed with has the scheme ws or wss, and
\* the transport never refuses a URL for lacking one: a URL that setOptions()
\* was given without a scheme is upgraded by the time the connect() that
\* follows the disconnect uses it, and that connect() opens a transport to the
\* new URL.
C18_UrlScheme ==
    [][/\ \A k \in 1..Len(sockets') : ValidUrl(sockets'[k].url.url)
       /\ \A pr \in Settled' : pr.of = "connect" => pr.error # "SyntaxError"
       /\ \A k \in SocketIds, c \in CloseCodes, e \in BOOLEAN :
             (/\ k <= Len(sockets) /\ ClosedBySetOptions(k)
              /\ ~ValidUrl(options.url) /\ options.url # NoUrl
              /\ SocketClose(k, c, e)) =>
                 /\ Len(sockets') = Len(sockets) + 1
                 /\ sockets'[Len(sockets')].url.url = constructorUrl(options.url)]_vars

\* No transport is open or opening and no reconnection retry is pending.
NoTransport ==
    /\ \A k \in 1..Len(sockets) : sockets[k].rs = WS_CLOSED
    /\ reconnectTimer = 0

\* C19: nothing is fatal: in every state with no transport open or opening and
\* no retry pending, a connect() against a well-formed URL opens a transport,
\* and the state is CONNECTED once that transport is established.
C19_NothingFatal ==
    [][/\ (NoTransport /\ ValidUrl(options.url) /\ Connect) =>
              /\ Len(sockets') = Len(sockets) + 1
              /\ socket' = Len(sockets')
              /\ sockets'[socket'].rs = WS_CONNECTING
       /\ \A k \in SocketIds :
             (k = socket /\ SocketOpen(k)) => connectionState' = CONNECTED]_vars

IsNotification(data) == data.parses /\ ~IsResponse(data) /\ data.method # "absent"
\* Some on(name, h) whose unsubscribe() has not been called.
Live(name, h) ==
    \E i \in 1..Len(subscriptions) :
        /\ subscriptions[i].eventType = name
        /\ subscriptions[i].handler = h
        /\ subscriptions[i].kind = "on"
        /\ subscriptions[i].active
        /\ ~subscriptions[i].off
\* The invocations of h, in the step taken, as a handler registered for name.
InvocationsOf(name, h) ==
    {n \in 1..Len(invoked') :
        invoked'[n].handler = h /\ invoked'[n].via = 0 /\ invoked'[n].under = name}

\* C20: an inbound notification named name invokes every handler with a
\* registration on(name, h) that was not unsubscribed exactly once, with the
\* notification's params, and invokes no handler whose registrations for name
\* were all unsubscribed.
C20_Delivery ==
    [][\A k \in SocketIds, data \in Frames :
          (IsNotification(data) /\ Message(k, data)) =>
              \A h \in Handlers :
                  IF Live(data.method, h)
                  THEN /\ Cardinality(InvocationsOf(data.method, h)) = 1
                       /\ \A n \in InvocationsOf(data.method, h) :
                             invoked'[n].arg = [wrapped |-> FALSE, type |-> "",
                                                data |-> data.params]
                  ELSE InvocationsOf(data.method, h) = {}]_vars

\* The oneTimeHandler of the i-th Subscription is in the handler set of its name.
Registered(i) ==
    \E n \in 1..Len(eventHandlers[subscriptions[i].eventType]) :
        eventHandlers[subscriptions[i].eventType][n]
            = oneTimeHandler(subscriptions[i].handler, i)

\* C21: a handler registered with once() has run at most once so far, and once
\* it has run its wrapper is no longer registered.
C21_OnceAtMostOnce ==
    \A i \in 1..Len(subscriptions) :
        subscriptions[i].kind = "once" =>
            /\ subscriptions[i].delivered <= 1
            /\ subscriptions[i].delivered = 1 => ~Registered(i)

\* A once() handler that has run is passed over by a later occurrence of its
\* event, which is dispatched to nobody.
C21_Witness ==
    \E i \in 1..Len(subscriptions) :
        /\ subscriptions[i].kind = "once"
        /\ subscriptions[i].delivered = 1
        /\ subscriptions[i].active /\ ~subscriptions[i].off
        /\ subscriptions[i].eventType \in EventTypes
        /\ invoked = <<>>

\* The function h is in the handler set of name.
InSet(name, h) == \E n \in 1..Len(eventHandlers[name]) : eventHandlers[name][n] = Fn(h)
\* The invocations of h, in the step taken, that are not made through a
\* oneTimeHandler, in order.
Invocations(h) == SelectSeq(invoked', LAMBDA e : e.handler = h /\ e.via = 0)

\* C22: in every step, a handler that is registered under '*' is invoked once
\* per event dispatched in the step and not more, in the order of the events
\* and each time with {type, data} of the event.
C22_Wildcard ==
    [][\A h \in Handlers :
          InSet("*", h) =>
              LET toStar == SelectSeq(Invocations(h), LAMBDA e : e.under = "*") IN
              /\ Len(toStar) = Len(emitted')
              /\ \A n \in 1..Len(toStar) :
                    toStar[n].arg = [wrapped |-> TRUE, type |-> emitted'[n].type,
                                     data |-> emitted'[n].data]]_vars

\* How often the events dispatched in the step taken reach the handler set of
\* name: once per event of that name, and for '*' once more per event.
Occurrences(name) ==
    Cardinality({n \in 1..Len(emitted') : emitted'[n].type = name})
        + (IF name = "*" THEN Len(emitted') ELSE 0)
SomeHandlerThrew == \E n \in 1..Len(invoked') : invoked'[n].threw

\* C23: in a step in which a handler throws, every function in the handler set
\* of a dispatched event's name and of '*' is still invoked as often as the
\* events reach its set, every registered oneTimeHandler they reach runs, and a
\* notification whose handler throws leaves the connection state, the
\* pending-call table and the call timers as they were.
C23_ThrowingHandler ==
    [][SomeHandlerThrew =>
          /\ \A name \in EventNames, h \in Handlers :
                InSet(name, h) =>
                    Len(SelectSeq(Invocations(h), LAMBDA e : e.under = name))
                        = Occurrences(name)
          /\ \A i \in 1..Len(subscriptions) :
                (/\ subscriptions[i].kind = "once" /\ Registered(i)
                 /\ Occurrences(subscriptions[i].eventType) > 0) =>
                    \E n \in 1..Len(invoked') : invoked'[n].via = i
          /\ \A k \in SocketIds, data \in Frames :
                (IsNotification(data) /\ Message(k, data)) =>
                    /\ connectionState' = connectionState
                    /\ connected' = connected
                    /\ pendingRequests' = pendingRequests
                    /\ callTimers' = callTimers]_vars

\* One dispatch in which a handler threw and a handler after it was invoked.
C23_Witness ==
    /\ Len(emitted) = 1
    /\ \E m, n \in 1..Len(invoked) :
          m < n /\ invoked[m].threw /\ ~invoked[n].threw

\* Every on(name, h) so far was followed by off(name), and there was one.
AllOff(name, h) ==
    /\ \E i \in 1..Len(subscriptions) :
          /\ subscriptions[i].eventType = name /\ subscriptions[i].handler = h
          /\ subscriptions[i].kind = "on"
    /\ \A i \in 1..Len(subscriptions) :
          (/\ subscriptions[i].eventType = name /\ subscriptions[i].handler = h
           /\ subscriptions[i].kind = "on") => subscriptions[i].off

\* C24: off(name) empties the handler set of name and leaves the handler sets
\* of the other names as they are; afterwards no event invokes, as a handler
\* of name, a function or a oneTimeHandler registered under name before the
\* off(name) and not registered again since.
C24_Off ==
    [][/\ \A name \in EventNames :
             Off(name) =>
                 /\ eventHandlers'[name] = <<>>
                 /\ \A other \in EventNames \ {name} :
                       eventHandlers'[other] = eventHandlers[other]
       /\ \A name \in EventNames, h \in Handlers :
             AllOff(name, h) =>
                 SelectSeq(Invocations(h), LAMBDA e : e.under = name) = <<>>
       /\ \A i \in 1..Len(subscriptions) :
             subscriptions[i].off =>
                 \A n \in 1..Len(invoked') : invoked'[n].via # i]_vars

\* After off('room:chat_message') that notification arrives: the handler that
\* was registered for it is not invoked, a handler registered under '*' is.
C24_Witness ==
    \E i, j \in 1..Len(subscriptions) :
        /\ subscriptions[i].eventType = "room:chat_message" /\ subscriptions[i].off
        /\ subscriptions[i].active
        /\ subscriptions[j].eventType = "*" /\ ~subscriptions[j].off
        /\ emitted = <<[type |-> "room:chat_message", data |-> <<1>>]>>
        /\ Len(invoked) = 1
        /\ invoked[1].handler = subscriptions[j].handler /\ invoked[1].under = "*"

\* The step taken leaves alone everything but the call id: the other pending
\* entries, their timers and promises, the connection state and flags, the
\* transports, and the keepalive and reconnection timers.
OnlyCall(id) ==
    /\ pendingRequests' \ {id} = pendingRequests \ {id}
    /\ callTimers' \ {id} = callTimers \ {id}
    /\ \A j \in Issued \ {id} : calls'[j] = calls[j]
    /\ connectionState' = connectionState
    /\ connected' = connected
    /\ reconnecting' = reconnecting
    /\ socket' = socket
    /\ sockets' = sockets
    /\ pingTimer' = pingTimer
    /\ reconnectTimer' = reconnectTimer
    /\ reconnectAttempts' = reconnectAttempts

\* C25: the timeout of a call, and a response carrying an error for a call,
\* change nothing but that call.
C25_FailureIsLocal ==
    [][/\ \A id \in Ids : CallTimeout(id) => OnlyCall(id)
       /\ \A k \in SocketIds, data \in Frames :
             (/\ IsResponse(data) /\ data.error # "absent" /\ data.id.t = "str"
              /\ Message(k, data)) => OnlyCall(data.id.n)]_vars

\* A call has timed out while another is pending with its timer armed, on a
\* connection that is up with its keepalive running.
C25_Witness ==
    \E id \in Issued, j \in Issued :
        /\ id # j
        /\ TimedOut(id)
        /\ j \in pendingRequests /\ j \in callTimers
        /\ connectionState = CONNECTED /\ pingTimer

\* A notification is a request without an id.
NotificationFrame(data) == data.parses /\ data.id.t = "absent" /\ data.method # "absent"

\* C26: a frame that cannot be parsed, or that is neither a response nor a
\* notification, is dropped: no call is settled or forgotten, no handler is
\* invoked, and the connection state and the transports stay as they are, so
\* that the transport goes on delivering frames.
C26_GarbageDropped ==
    [][\A k \in SocketIds, data \in Frames :
          (~IsResponse(data) /\ ~NotificationFrame(data) /\ Message(k, data)) =>
              /\ calls' = calls
              /\ pendingRequests' = pendingRequests
              /\ callTimers' = callTimers
              /\ invoked' = <<>>
              /\ connectionState' = connectionState
              /\ connected' = connected
              /\ sockets' = sockets]_vars

C28_FreshIds ==
    [][/\ requestId' >= requestId
       /\ requestId' = requestId + (Len(calls') - Len(calls))
       /\ Len(calls') > Len(calls) =>
             /\ requestId' > requestId
             /\ requestId' \notin pendingRequests
             /\ \A id \in Issued : id < requestId'
       /\ pendingRequests' \subseteq 1..requestId']_vars

\* Two calls were issued with the ids 1 and 2; the first is settled, the second
\* is still pending after the first transport closed and a second one opened.
C28_Witness ==
    /\ Len(sockets) = 2
    /\ sockets[1].opened /\ sockets[1].rs = WS_CLOSED
    /\ socket = 2 /\ sockets[2].rs = WS_OPEN
    /\ requestId = 2
    /\ calls[1].sent = 1 /\ calls[1].settled # <<>> /\ 1 \notin pendingRequests
    /\ calls[2].sent = 1 /\ 2 \in pendingRequests

\* The states the public operations lead to from the current state, whatever
\* their arguments.
AfterOperation ==
    {connect(Begin, UserCont), disconnect(Begin, "user")}
    \cup {setOptions(Begin, partial) : partial \in Partials}
    \cup {call(Begin, m, ok) : m \in Methods, ok \in BOOLEAN}
    \cup {notify(Begin, m, ok) : m \in Methods, ok \in BOOLEAN}

\* The states the transport events lead to from the current state: open, error
\* with close, close and message, on every socket that can have the event.
AfterTransportEvent ==
    UNION {
        (IF sockets[k].rs = WS_CONNECTING
         THEN {handleOpen(setReadyState(Begin, k, WS_OPEN), k)} ELSE {})
        \cup (IF sockets[k].rs # WS_CLOSED
              THEN {closeEvent(handleError(setReadyState(Begin, k, WS_CLOSED), k), k, 1006)}
                   \cup {closeEvent(setReadyState(Begin, k, WS_CLOSED), k, code) :
                            code \in CloseCodes}
              ELSE {})
        \cup (IF sockets[k].rs = WS_OPEN
              THEN {handleMessage(Begin, data) : data \in Frames} ELSE {})
        : k \in 1..Len(sockets)}

\* The states the timer callbacks lead to from the current state, for every
\* timer that is armed.
AfterTimerEvent ==
    {connectTimeout(Begin, k) : k \in {k \in 1..Len(sockets) : sockets[k].timer}}
    \cup {callTimeout(Begin, id) : id \in callTimers}
    \cup (IF reconnectTimer # 0 THEN {reconnectTimeout(Begin)} ELSE {})
    \cup (IF pingTimer THEN {pingTick(Begin)} ELSE {})

\* C29: connectionState is one of the five values of ConnectionState, and in
\* every reachable state every public operation, every transport event and
\* every timer callback that can happen yields one of the five values again.
C29_StateTotal ==
    /\ connectionState \in ConnectionState
    /\ \A s \in AfterOperation \cup AfterTransportEvent \cup AfterTimerEvent :
          s.connectionState \in ConnectionState

\* State RECONNECTING with a transport still open and the backoff timer armed:
\* operations, transport events and timer callbacks can all happen here.
C29_Witness ==
    /\ connectionState = RECONNECTING
    /\ reconnectTimer # 0
    /\ \E k \in 1..Len(sockets) : sockets[k].rs = WS_OPEN

\* C30: in state CONNECTED the current transport is open and the connected
\* flag is set; in the states DISCONNECTED and RECONNECTING the flag is clear.
C30_ConnectedFlag ==
    /\ connectionState = CONNECTED =>
          /\ socket # 0 /\ sockets[socket].rs = WS_OPEN
          /\ connected
    /\ connectionState \in {DISCONNECTED, RECONNECTING} => ~connected

\* A retry of the reconnection policy is scheduled, or the connection attempt
\* of one is in flight.
RetryPending ==
    \/ reconnectTimer # 0
    \/ \E k \in 1..Len(sockets) :
          /\ sockets[k].cont.kind = "reconnect"
          /\ sockets[k].promise = "pending"
          /\ sockets[k].rs = WS_CONNECTING

\* C31: in the states DISCONNECTED and CONNECTED with no retry scheduled or in
\* flight, the reconnecting flag is false.
C31_ReconnectingFlag ==
    (connectionState \in {DISCONNECTED, CONNECTED} /\ ~RetryPending) => ~reconnecting

\* The transports that are open or opening.
LiveSockets == {k \in 1..Len(sockets) : sockets[k].rs \in {WS_CONNECTING, WS_OPEN}}

\* C32: at most one transport is open or opening.
C32_SingleTransport == Cardinality(LiveSockets) <= 1

\* C33: when the connection-timeout timer of an attempt fires after the
\* attempt's transport has opened or failed, the connection state stays as it
\* is, every other transport is left alone and no promise is settled.
C33_StaleTimeout ==
    [][\A k \in SocketIds :
          (/\ k <= Len(sockets)
           /\ sockets[k].rs # WS_CONNECTING
           /\ sockets[k].promise # "pending"
           /\ ConnectTimeout(k)) =>
              /\ connectionState' = connectionState
              /\ \A j \in 1..Len(sockets) : j # k => sockets'[j] = sockets[j]
              /\ promises' = <<>>]_vars

\* The connection attempt of a retry of the reconnection policy fails in the
\* step taken.
PolicyAttemptFails ==
    \E k \in 1..Len(sockets) :
        /\ sockets[k].cont.kind = "reconnect"
        /\ sockets[k].promise = "pending"
        /\ sockets'[k].promise = "rejected"
\* A transport that was open closes in the step taken.
OpenTransportCloses ==
    \E k \in 1..Len(sockets) : sockets[k].rs = WS_OPEN /\ sockets'[k].rs = WS_CLOSED

\* C34: the state RECONNECTING is entered from CONNECTED when an open transport
\* closes, or when the attempt of a retry fails; and when an attempt that the
\* reconnection policy did not make fails or times out, the state becomes
\* DISCONNECTED and no retry is scheduled.
C34_ReconnectingEntry ==
    [][/\ (connectionState' = RECONNECTING /\ connectionState # RECONNECTING) =>
             \/ connectionState = CONNECTED /\ OpenTransportCloses
             \/ PolicyAttemptFails
       /\ \A k \in SocketIds :
             (/\ k <= Len(sockets)
              /\ sockets[k].cont.kind # "reconnect"
              /\ sockets[k].promise = "pending"
              /\ sockets[k].rs = WS_CONNECTING
              /\ ConnectTimeout(k) \/ SocketFail(k)) =>
                 /\ connectionState' = DISCONNECTED
                 /\ reconnectTimer' \in {0, reconnectTimer}]_vars

\* C35: the request frame of a call is handed to the transport at most once,
\* and not in a step that begins with the promise of the call settled.
C35_SentAtMostOnce ==
    [][\A id \in 1..Len(calls') :
          /\ calls'[id].sent <= 1
          /\ (id \in Issued /\ calls'[id].sent > calls[id].sent) =>
                calls[id].settled = <<>>]_vars

\* C36: a step in which a promise of connect() resolves ends in state
\* CONNECTED with the current transport open.
C36_ResolvedMeansConnected ==
    [][\A pr \in Settled' :
          (pr.of = "connect" /\ pr.how = "resolved") =>
              /\ connectionState' = CONNECTED
              /\ socket' # 0 /\ sockets'[socket'].rs = WS_OPEN]_vars

LifecycleEvents ==
    {"socket:connect", "socket:disconnect", "socket:error", "socket:reconnect_attempt",
     "socket:reconnect_success", "socket:reconnect_error", "socket:reconnect_failed"}

\* C37: a step that changes connectionState emits a lifecycle event.
C37_TransitionsEmit ==
    [][connectionState' # connectionState =>
          \E n \in 1..Len(emitted') : emitted'[n].type \in LifecycleEvents]_vars

C39_LifecycleFromService ==
    [][\A k \in SocketIds, data \in Frames :
          (data.method \in LifecycleEvents /\ Message(k, data)) =>
              \A n \in 1..Len(invoked') : invoked'[n].under \notin LifecycleEvents]_vars

\* What the j-th on() or once() call added to the handler set of its name is
\* in the map handlers.
Held(handlers, j) ==
    LET sub == subscriptions[j]
        entry == IF sub.kind = "on" THEN Fn(sub.handler) ELSE oneTimeHandler(sub.handler, j)
    IN \E n \in 1..Len(handlers[sub.eventType]) : handlers[sub.eventType][n] = entry

\* C40: unsubscribe() of one Subscription leaves every other registration for
\* the same event name, one of the same function included, in the handler set.
C40_IndependentRegistrations ==
    [][\A i \in 1..MaxSubscriptions :
          Unsubscribe(i) =>
              \A j \in (1..Len(subscriptions)) \ {i} :
                  (/\ subscriptions[j].eventType = subscriptions[i].eventType
                   /\ subscriptions[j].active /\ ~subscriptions[j].off
                   /\ Held(eventHandlers, j)) => Held(eventHandlers', j)]_vars

=============================================================================
